---- MODULE Spec2Model ----
(***************************************************************************)
(* Model of fb2epubru_dl.py: Parser (findall, findone, get_index, search,  *)
(* get_book), BookIterator, make_select_menu, main and download.           *)
(*                                                                         *)
(* Every Python str is a sequence of tokens (a token is one character or   *)
(* one indivisible run of characters), so that lower(), :contains(),       *)
(* [href$=...], strip(), splitext() and str.format() are computed and not  *)
(* assumed.  An lxml element is a record whose field kind names the        *)
(* structural position a CSS selector tests; a page is the sequence of     *)
(* its elements in document order.                                         *)
(***************************************************************************)
EXTENDS Integers, Sequences, FiniteSets, TLC

\* ------------------------------------------------------------------ bounds
MaxIndexAnchors == 2    \* anchors under #s1 on the index page
MaxLetterAnchors == 2   \* author anchors on a letter page
MaxBooks == 3           \* books the site lists for one author
MaxShown == 2           \* books the site shows per listing page
MaxTreeLen == 3         \* elements of a tree handed to findone alone

\* --------------------------------------------------------- strings, tokens
\* lxml gives None as the text of an element that has no text.
NoText == <<>>

SeqsUpTo(S, n) == UNION {[1..k -> S] : k \in 0..n}

\* str.lower() on one character.
LowerChar(c) == CASE c = "P" -> "p"
                  [] c = "U" -> "u"
                  [] c = "A" -> "a"
                  [] OTHER -> c

\* str.lower()
lower(s) == [i \in 1..Len(s) |-> LowerChar(s[i])]

\* needle in haystack (case-sensitive substring test, as XPath contains()).
Contains(haystack, needle) ==
    \E k \in 0..(Len(haystack) - Len(needle)) :
        \A j \in 1..Len(needle) : haystack[k + j] = needle[j]

\* the attribute selector [href$="suffix"]
EndsWith(s, suffix) ==
    /\ Len(suffix) <= Len(s)
    /\ \A j \in 1..Len(suffix) : s[Len(s) - Len(suffix) + j] = suffix[j]

\* string.whitespace + '.', the characters title.strip() removes
StripChars == {" ", "."}

RECURSIVE LStrip(_)
LStrip(s) == IF s # <<>> /\ Head(s) \in StripChars THEN LStrip(Tail(s)) ELSE s

RECURSIVE RStrip(_)
RStrip(s) == IF s # <<>> /\ s[Len(s)] \in StripChars
             THEN RStrip(SubSeq(s, 1, Len(s) - 1)) ELSE s

\* str.strip(whitespace + '.')
strip(s) == RStrip(LStrip(s))

\* os.path.splitext(p)[1]: the part from the last dot of the last path
\* component on, empty when that component has no dot after a non-dot.
LastIndexOf(s, c) ==
    IF \E i \in 1..Len(s) : s[i] = c
    THEN CHOOSE i \in 1..Len(s) : s[i] = c /\ \A j \in (i + 1)..Len(s) : s[j] # c
    ELSE 0

splitext_ext(p) ==
    LET sep == LastIndexOf(p, "/")
        dot == LastIndexOf(p, ".")
    IN IF dot > sep /\ \E j \in (sep + 1)..(dot - 1) : p[j] # "."
       THEN SubSeq(p, dot, Len(p))
       ELSE <<>>

\* filename_template.format(author=..., title=...)
RECURSIVE format(_, _, _)
format(template, author, title) ==
    IF template = <<>> THEN <<>>
    ELSE (CASE Head(template) = "{author}" -> author
            [] Head(template) = "{title}" -> title
            [] OTHER -> <<Head(template)>>)
         \o format(Tail(template), author, title)

\* os.path.join(a, b) for a relative b
path_join(a, b) == a \o <<"/">> \o b

\* ------------------------------------------------------------ Parser basics
BASE_URL == <<"https://fb2-epub.ru">>

get_abs_url(url) == BASE_URL \o url

\* A CSS selector: the structural position it tests, the suffix its
\* [href$=...] part demands and the text its :contains(...) part demands
\* (both empty when the selector has no such part).
Sel(kind, suffix, contains) ==
    [kind |-> kind, suffix |-> suffix, contains |-> contains]

Matches(selector, e) ==
    /\ e.kind = selector.kind
    /\ (selector.suffix # <<>> => EndsWith(e.href, selector.suffix))
    /\ (selector.contains # <<>> => Contains(e.text, selector.contains))

\* Parser.findall with a tree given: tree.cssselect(selector), document order.
findall(selector, tree) == SelectSeq(tree, LAMBDA e : Matches(selector, e))

\* the mutant: the check for several matches is off by one
findone_Mut(selector, tree) ==
    LET found == findall(selector, tree)
    IN IF Len(found) > 2 THEN [tag |-> "raise", found |-> found]
       ELSE IF found # <<>> THEN [tag |-> "one", elem |-> found[1]]
       ELSE [tag |-> "none"]

\* Parser.findone: raise MultipleElementsFoundError(found), or found[0], or None
findone(selector, tree) ==
    LET found == findall(selector, tree)
    IN IF Len(found) > 1 THEN [tag |-> "raise", found |-> found]
       ELSE IF found # <<>> THEN [tag |-> "one", elem |-> found[1]]
       ELSE [tag |-> "none"]

\* ------------------------------------------------------------ the web site
\* An element no selector of the program matches (a heading, a wrapper).
Other == [kind |-> "other", text |-> NoText, href |-> <<>>]

\* The anchors of the index page under #s1: a letter (or a longer label, or
\* no text at all) and the href of the letter's page (possibly empty).
IndexAnchors ==
    [kind : {"s1a"},
     text : {<<"P">>, <<"p">>, <<"P", "u">>, NoText},
     href : {<<"/", "p1">>, <<"/", "p2">>, <<>>}]

IndexPages ==
    {<<Other>> \o as : as \in SeqsUpTo(IndexAnchors, MaxIndexAnchors)}

\* The author anchors of a letter page, in a paragraph right after an h2.
LetterAnchors ==
    {[kind |-> "h2pa", text |-> <<"P", "u">>, href |-> <<"/", "a1">>],
     [kind |-> "h2pa", text |-> <<"P", "u">>, href |-> <<"/", "a2">>],
     [kind |-> "h2pa", text |-> <<"p", "u">>, href |-> <<"/", "a3">>]}

LetterPages ==
    {<<Other>> \o as : as \in SeqsUpTo(LetterAnchors, MaxLetterAnchors)}

\* ------------------------------------------------------- index and search
EmptyDict == [k \in {} |-> <<>>]

DictPut(d, k, v) == [x \in DOMAIN d \cup {k} |-> IF x = k THEN v ELSE d[x]]

S1A == Sel("s1a", <<>>, <<>>)

\* the dict comprehension of get_index, one anchor after another
RECURSIVE IndexFrom(_, _)
IndexFrom(as, d) ==
    IF as = <<>> THEN d
    ELSE IndexFrom(Tail(as), DictPut(d, lower(Head(as).text), Head(as).href))

\* the mutant: the first anchor of a key is kept, not the last
RECURSIVE IndexFromFirst(_, _)
IndexFromFirst(as, d) ==
    IF as = <<>> THEN d
    ELSE IndexFromFirst(Tail(as),
            IF lower(Head(as).text) \in DOMAIN d THEN d
            ELSE DictPut(d, lower(Head(as).text), Head(as).href))

get_index_Mut(page) == IndexFromFirst(findall(S1A, page), EmptyDict)

\* Parser.get_index, given the tree of '/'
get_index(page) == IndexFrom(findall(S1A, page), EmptyDict)

\* a.text.lower() raises AttributeError when a.text is None
get_index_raises(page) ==
    \E i \in 1..Len(findall(S1A, page)) : findall(S1A, page)[i].text = NoText

\* first_letter = query[0].lower()
first_letter(q) == lower(<<q[1]>>)

\* the anchors search() yields, as (href, text) pairs
search_found(q, page) ==
    LET as == findall(Sel("h2pa", <<>>, q), page)
    IN [i \in 1..Len(as) |-> <<as[i].href, as[i].text>>]

\* the menu of make_select_menu: enumerate(iterable, start=1)
make_menu(iterable) == [i \in 1..Len(iterable) |-> iterable[i][1]]

\* ------------------------------------------------- the site: author's books
BookHrefs == {<<"/", "b1">>, <<"/", "b2">>, <<"/", "b3">>, <<"/", "b4">>}

DivA(href) == [kind |-> "diva", text |-> NoText, href |-> href]

\* The .eText container of a detail page: h1 > a (author, its href and the
\* text node after it) and the anchors inside its div elements.
EText(author, tail, links) ==
    [kind |-> "eText", text |-> NoText, href |-> <<>>, author |-> author,
     author_href |-> <<"/", "author", "/">> \o author, tail |-> tail,
     children |-> links]

\* The detail page the site serves at href.
DetailPage(href) ==
    CASE href = <<"/", "b1">> ->
            <<Other, EText(<<"A">>, <<" ", "T1">>,
                <<DivA(<<"/", "f1", ".", "zip">>), DivA(<<"/", "f1", ".", "epub">>)>>)>>
      [] href = <<"/", "b2">> ->
            <<Other, EText(<<"A">>, <<" ", "T1", ".", " ">>,
                <<DivA(<<"/", "f2", ".", "epub">>)>>)>>
      [] href = <<"/", "b3">> ->
            <<Other, EText(<<"B">>, <<" ", "T2">>,
                <<DivA(<<"/", "f3", ".", "epub">>), DivA(<<"/", "f3", ".", "zip">>)>>)>>
      [] OTHER ->
            <<EText(<<"A">>, <<" ", "T3">>, <<>>), EText(<<"A">>, <<" ", "T3">>, <<>>)>>

\* int(text) of a decimal numeral
IntOf(tok) == CHOOSE n \in 0..(MaxBooks + MaxShown) : ToString(n) = tok

\* text.split('-').pop()
LastPiece(text) == SubSeq(text, LastIndexOf(text, "-") + 1, Len(text))

\* The summary element: its text "1-<shown>", and the text of the <b> of
\* its parent's parent, the total.
Summary(shown, total) ==
    [kind |-> "numShown73", text |-> <<"1", "-", ToString(shown)>>, href |-> <<>>,
     total_text |-> ToString(total)]

\* The pages the site may serve at the author's URL: the summary element
\* once, and the broken markups with none or two of them.
ProbePages(catalog, per_page) ==
    LET e == Summary(per_page, Len(catalog))
    IN {<<Other, e>>, <<Other>>, <<Other, e, e>>}

Min(a, b) == IF a < b THEN a ELSE b

\* The listing page "<author's URL>-i": the i-th slice of the catalog, and
\* no entry for an i the site has no page for.
ListingPage(catalog, per_page, i) ==
    LET first == (i - 1) * per_page
        n == IF i >= 1 /\ Len(catalog) > first
             THEN Min(per_page, Len(catalog) - first) ELSE 0
    IN <<Other>> \o [k \in 1..n |-> [kind |-> "entry", text |-> NoText,
                                     href |-> catalog[first + k]]]

\* ------------------------------------------------------------- get_book
Raised(e) == [ok |-> FALSE, err |-> e]

\* Parser.get_book, given the tree of the detail page (the description,
\* which nothing in the program reads, is left out of the Book)
get_book(page) ==
    LET r == findone(Sel("eText", <<>>, <<>>), page)
    IN IF r.tag = "raise" THEN Raised("MultipleElementsFoundError")
       ELSE IF r.tag = "none" THEN Raised("AttributeError")
       ELSE LET elem == r.elem
                fb2 == findone(Sel("diva", <<".", "zip">>, <<>>), elem.children)
                epub == findone(Sel("diva", <<".", "epub">>, <<>>), elem.children)
            IN IF fb2.tag = "raise" \/ epub.tag = "raise"
               THEN Raised("MultipleElementsFoundError")
               ELSE [ok |-> TRUE,
                     book |-> [author |-> elem.author,
                               author_url |-> get_abs_url(elem.author_href),
                               title |-> strip(elem.tail)]
                              @@ (IF fb2.tag = "one"
                                  THEN [fb2_url |-> get_abs_url(fb2.elem.href)]
                                  ELSE EmptyDict)
                              @@ (IF epub.tag = "one"
                                  THEN [epub_url |-> get_abs_url(epub.elem.href)]
                                  ELSE EmptyDict)]

\* ---------------------------------------------------------- BookIterator
\* math.ceil(a / b) for a >= 0 and b > 0
Ceil(a, b) == (a + b - 1) \div b

\* the mutant: the + 1 is dropped
count_pages_Mut(count, show_count) == Ceil(count, show_count)

\* count_pages = math.ceil(self.count / self.show_count) + 1
count_pages(count, show_count) == Ceil(count, show_count) + 1

\* range(a, b)
range(a, b) == [k \in 1..(b - a) |-> a + k - 1]

\* BookIterator.__init__, given the tree of base_url
iter_init(page) ==
    LET r == findone(Sel("numShown73", <<>>, <<>>), page)
    IN IF r.tag = "raise" THEN Raised("MultipleElementsFoundError")
       ELSE IF r.tag = "none" THEN Raised("AttributeError")
       ELSE [ok |-> TRUE,
             show_count |-> IntOf(LastPiece(r.elem.text)[1]),
             count |-> IntOf(r.elem.total_text)]

\* ------------------------------------------------------------------ state
VARIABLES
    pc,                \* where main() stands
    err,               \* the exception that ended the run, "" when none
    query,             \* main's arguments and options
    file_format,
    filename_template,
    index_page,        \* search: the tree of '/' (a temporary)
    index,             \* search: the result of get_index() (a temporary)
    letter_page,       \* search: the tree of the letter's page (a temporary)
    found,             \* main: tuple(parser.search(query))
    prompted,          \* whether click.prompt was called
    idx,               \* the number the user entered, 0 when not asked
    base_url,          \* BookIterator.base_url
    show_count,        \* BookIterator.show_count
    count,             \* BookIterator.count
    site,              \* the site's catalog of the author and its page size
    page,              \* __iter__: how many values of range(1, count_pages) are used up
    anchors,           \* __iter__: the anchors of the current page not yet visited
    book,              \* main: the loop variable
    yielded,           \* the Books the iterator has yielded so far
    url,               \* main: the download URL of the current book
    path,              \* main: the file path of the current book
    events,            \* the outside calls so far: requests.get and sleep
    dirs,              \* the directories os.mkdir has created
    files,             \* the files download() has written: path -> URL of the content
    fo_selector,       \* findone on its own: the arguments and the result
    fo_tree,
    fo_result

mainVars == <<pc, err, query, file_format, filename_template, index_page, index,
              letter_page, found, prompted, idx, base_url, show_count, count, site, page,
              anchors, book, yielded, url, path, events, dirs, files>>

foVars == <<fo_selector, fo_tree, fo_result>>

vars == <<mainVars, foVars>>

\* click.argument('query')
Queries == {<<>>, <<"P", "u">>, <<"P", "U">>, <<"u">>}

\* click.Choice(('epub', 'fb2'))
Formats == {"epub", "fb2"}

\* --filename-template: its default, '{author}. {title}'
Templates == {<<"{author}", ".", " ", "{title}">>}

\* click.argument('dest'): an existing directory
dest == <<"dest">>

NoBook == EmptyDict

NoSite == [catalog |-> <<>>, per_page |-> 1]

\* Parser.send(url): requests.get(self.get_abs_url(url)); op names the caller
Get(op, u) == [op |-> op, url |-> get_abs_url(u)]

\* requests.get(url, stream=True) in download()
Download(u) == [op |-> "download", url |-> u]

\* sleep(0.1)
Sleep == [op |-> "sleep", url |-> <<>>]

Init ==
    /\ pc = "search"
    /\ err = ""
    /\ query \in Queries
    /\ file_format \in Formats
    /\ filename_template \in Templates
    /\ index_page = <<>>
    /\ index = EmptyDict
    /\ letter_page = <<>>
    /\ found = <<>>
    /\ prompted = FALSE
    /\ idx = 0
    /\ base_url = <<>>
    /\ show_count = 0
    /\ count = 0
    /\ site = NoSite
    /\ page = 0
    /\ anchors = <<>>
    /\ book = NoBook
    /\ yielded = <<>>
    /\ url = <<>>
    /\ path = <<>>
    /\ events = <<>>
    /\ dirs = {}
    /\ files = EmptyDict
    /\ fo_selector = Sel("other", <<>>, <<>>)
    /\ fo_tree = <<>>
    /\ fo_result = [tag |-> "none"]

Raise(e) == pc' = "error" /\ err' = e

\* ------------------------------------------------------------------ search
\* search(), up to get_index(): query[0], then GET '/' and the dict.
SearchIndex ==
    /\ pc = "search"
    /\ IF query = <<>>
       THEN /\ Raise("IndexError")
            /\ UNCHANGED <<index_page, index, events>>
       ELSE \E p \in IndexPages :
              /\ events' = Append(events, Get("index", <<"/">>))
              /\ index_page' = p
              /\ IF get_index_raises(p)
                 THEN Raise("AttributeError") /\ index' = index
                 ELSE pc' = "indexed" /\ err' = err /\ index' = get_index(p)
    /\ UNCHANGED <<query, file_format, filename_template, letter_page, found,
                   prompted, idx, base_url, show_count, count, site, page, anchors, book,
                   yielded, url, path, dirs, files, foVars>>

\* search(), from .get(first_letter) on: the letter's page, filtered.
SearchLetter ==
    /\ pc = "indexed"
    /\ LET key == first_letter(query)
           u == IF key \in DOMAIN index THEN index[key] ELSE <<>>
       IN IF u # <<>>
          THEN \E p \in LetterPages :
                 /\ events' = Append(events, Get("letter", u))
                 /\ letter_page' = p
                 /\ found' = search_found(query, p)
          ELSE /\ found' = <<>>
               /\ UNCHANGED <<events, letter_page>>
    /\ pc' = "searched"
    /\ index_page' = <<>>
    /\ index' = EmptyDict
    /\ UNCHANGED <<err, query, file_format, filename_template, prompted, idx,
                   base_url, show_count, count, site, page, anchors, book,
                   yielded, url, path, dirs, files, foVars>>

\* the mutant: a single match is put to the user too
Select_Mut ==
    /\ pc = "searched"
    /\ IF Len(found) > 0
       THEN \E n \in 1..Len(make_menu(found)) :
              /\ prompted' = TRUE
              /\ idx' = n
              /\ base_url' = make_menu(found)[n]
              /\ pc' = "selected"
              /\ err' = err
       ELSE /\ Raise("IndexError")
            /\ UNCHANGED <<prompted, idx, base_url>>
    /\ letter_page' = <<>>
    /\ UNCHANGED <<query, file_format, filename_template, index_page, index,
                   found, show_count, count, site, page, anchors, book,
                   yielded, url, path, events, dirs, files, foVars>>

\* the mutant: an empty result ends the run quietly
Select_Mut0 ==
    /\ pc = "searched"
    /\ IF Len(found) > 1
       THEN \E n \in 1..Len(make_menu(found)) :
              /\ prompted' = TRUE
              /\ idx' = n
              /\ base_url' = make_menu(found)[n]
              /\ pc' = "selected"
              /\ err' = err
       ELSE IF found = <<>>
       THEN /\ pc' = "done"
            /\ UNCHANGED <<err, prompted, idx, base_url>>
       ELSE /\ base_url' = found[1][1]
            /\ pc' = "selected"
            /\ UNCHANGED <<err, prompted, idx>>
    /\ letter_page' = <<>>
    /\ UNCHANGED <<query, file_format, filename_template, index_page, index,
                   found, show_count, count, site, page, anchors, book,
                   yielded, url, path, events, dirs, files, foVars>>

\* main: make_select_menu(found) when len(found) > 1, else found[0][0].
Select ==
    /\ pc = "searched"
    /\ IF Len(found) > 1
       THEN \E n \in 1..Len(make_menu(found)) :
              /\ prompted' = TRUE
              /\ idx' = n
              /\ base_url' = make_menu(found)[n]
              /\ pc' = "selected"
              /\ err' = err
       ELSE IF found = <<>>
       THEN /\ Raise("IndexError")
            /\ UNCHANGED <<prompted, idx, base_url>>
       ELSE /\ base_url' = found[1][1]
            /\ pc' = "selected"
            /\ UNCHANGED <<err, prompted, idx>>
    /\ letter_page' = <<>>
    /\ UNCHANGED <<query, file_format, filename_template, index_page, index,
                   found, show_count, count, site, page, anchors, book,
                   yielded, url, path, events, dirs, files, foVars>>

\* ---------------------------------------------------------- BookIterator
\* parser.iter_books(url): BookIterator.__init__ probes base_url.
Probe ==
    /\ pc = "selected"
    /\ events' = Append(events, Get("probe", base_url))
    /\ \E catalog \in SeqsUpTo(BookHrefs, MaxBooks), per_page \in 1..MaxShown :
         \E p \in ProbePages(catalog, per_page) :
           LET r == iter_init(p)
           IN IF r.ok
              THEN /\ site' = [catalog |-> catalog, per_page |-> per_page]
                   /\ show_count' = r.show_count
                   /\ count' = r.count
                   /\ pc' = "iter"
                   /\ err' = err
              ELSE /\ Raise(r.err)
                   /\ UNCHANGED <<site, show_count, count>>
    /\ UNCHANGED <<query, file_format, filename_template, index_page, index,
                   letter_page, found, prompted, idx, base_url, page, anchors, book,
                   yielded, url, path, dirs, files, foVars>>

\* the mutant: no test of self.count, and the range starts at 0
pages_Mut == range(0, count_pages(count, show_count))

\* the values i takes in __iter__: none when self.count is 0, else
\* range(1, count_pages)
pages == IF count # 0 THEN range(1, count_pages(count, show_count)) ELSE <<>>

\* __iter__: the values of i are not used up
has_next_page == page < Len(pages)

\* the next value of i
next_index == pages[page + 1]

\* __iter__: the anchors of the current page are used up; GET the next page.
NextListing ==
    /\ pc = "iter"
    /\ anchors = <<>>
    /\ has_next_page
    /\ LET i == next_index
       IN /\ events' = Append(events, Get("listing", base_url \o <<"-", ToString(i)>>))
          /\ anchors' = findall(Sel("entry", <<>>, <<>>),
                                ListingPage(site.catalog, site.per_page, i))
    /\ page' = page + 1
    /\ UNCHANGED <<pc, err, query, file_format, filename_template, index_page,
                   index, letter_page, found, prompted, idx, base_url, show_count, count,
                   site, book, yielded, url, path, dirs, files, foVars>>

\* the mutant: the anchors of a page are visited from the last one
pick_Mut(as) == Len(as)

\* the anchor __iter__ visits next
pick(as) == 1

\* __iter__: yield self.parser.get_book(a.get('href')) for the next anchor.
GetBook ==
    /\ pc = "iter"
    /\ anchors # <<>>
    /\ LET k == pick(anchors)
           a == anchors[k]
           r == get_book(DetailPage(a.href))
       IN /\ events' = Append(events, Get("detail", a.href))
          /\ anchors' = SubSeq(anchors, 1, k - 1) \o SubSeq(anchors, k + 1, Len(anchors))
          /\ IF r.ok
             THEN /\ book' = r.book
                  /\ yielded' = Append(yielded, r.book)
                  /\ pc' = "body"
                  /\ err' = err
             ELSE /\ Raise(r.err)
                  /\ UNCHANGED <<book, yielded>>
    /\ UNCHANGED <<query, file_format, filename_template, index_page, index,
                   letter_page, found, prompted, idx, base_url, show_count, count, site,
                   page, url, path, dirs, files, foVars>>

\* __iter__ returns: the for loop of main ends and main returns.
StopIteration ==
    /\ pc = "iter"
    /\ anchors = <<>>
    /\ ~has_next_page
    /\ pc' = "done"
    /\ UNCHANGED <<err, query, file_format, filename_template, index_page,
                   index, letter_page, found, prompted, idx, base_url, show_count, count,
                   site, page, anchors, book, yielded, url, path, events, dirs,
                   files, foVars>>

\* ------------------------------------------------------- main: loop body
\* Python's None, as the value of a name
None == <<"<None>">>

\* dict.get(key)
dict_get(d, k) == IF k \in DOMAIN d THEN d[k] ELSE None

\* the mutant: a book without the URL is skipped
Prepare_Mut ==
    /\ pc = "body"
    /\ url' = dict_get(book, file_format \o "_url")
    /\ IF url' = None
       THEN pc' = "iter" /\ UNCHANGED <<dirs, path>>
       ELSE LET dir == path_join(dest, book.author)
            IN /\ dirs' = dirs \cup {dir}
               /\ path' = path_join(dir, format(filename_template, book.author, book.title))
                          \o splitext_ext(url')
               /\ pc' = "download"
    /\ UNCHANGED <<err, query, file_format, filename_template, index_page,
                   index, letter_page, found, prompted, idx, base_url, show_count, count,
                   site, page, anchors, book, yielded, events, files, foVars>>

\* main, lines 159-170: the URL of the format, the author's directory, the
\* file path and the extension; os.path.splitext(None) raises TypeError.
Prepare ==
    /\ pc = "body"
    /\ url' = dict_get(book, file_format \o "_url")
    /\ LET dir == path_join(dest, book.author)
           name == path_join(dir, format(filename_template, book.author, book.title))
       IN /\ dirs' = dirs \cup {dir}
          /\ IF url' = None
             THEN Raise("TypeError") /\ path' = name
             ELSE pc' = "download" /\ err' = err /\ path' = name \o splitext_ext(url')
    /\ UNCHANGED <<query, file_format, filename_template, index_page, index,
                   letter_page, found, prompted, idx, base_url, show_count, count, site,
                   page, anchors, book, yielded, events, files, foVars>>

\* the mutant: the pause is taken only when another download may follow
DownloadFile_Mut ==
    /\ pc = "download"
    /\ events' = Append(events, Download(url))
    /\ files' = DictPut(files, path, url)
    /\ pc' = IF anchors = <<>> /\ ~has_next_page THEN "iter" ELSE "sleep"
    /\ UNCHANGED <<err, query, file_format, filename_template, index_page,
                   index, letter_page, found, prompted, idx, base_url, show_count, count,
                   site, page, anchors, book, yielded, url, path, dirs, foVars>>

\* download(url, path): GET the URL and write the body to the file at path.
DownloadFile ==
    /\ pc = "download"
    /\ events' = Append(events, Download(url))
    /\ files' = DictPut(files, path, url)
    /\ pc' = "sleep"
    /\ UNCHANGED <<err, query, file_format, filename_template, index_page,
                   index, letter_page, found, prompted, idx, base_url, show_count, count,
                   site, page, anchors, book, yielded, url, path, dirs, foVars>>

\* sleep(0.1), then back to the for statement
SleepStep ==
    /\ pc = "sleep"
    /\ events' = Append(events, Sleep)
    /\ pc' = "iter"
    /\ UNCHANGED <<err, query, file_format, filename_template, index_page,
                   index, letter_page, found, prompted, idx, base_url, show_count, count,
                   site, page, anchors, book, yielded, url, path, dirs, files,
                   foVars>>

Next ==
    \/ SearchIndex
    \/ SearchLetter
    \/ Select
    \/ Probe
    \/ NextListing
    \/ GetBook
    \/ StopIteration
    \/ Prepare
    \/ DownloadFile
    \/ SleepStep

Spec == Init /\ [][Next]_vars

\* ------------------------------------------------- the iterator on its own
\* The state of main when it calls parser.iter_books(url) after a search
\* for "Pu" that gave one match: the runs of the iterator and of the loop
\* that drives it, without the runs of the search before them.
IterInit ==
    /\ pc = "selected"
    /\ err = ""
    /\ query = <<"P", "u">>
    /\ file_format \in Formats
    /\ filename_template \in Templates
    /\ index_page = <<>>
    /\ index = EmptyDict
    /\ letter_page = <<>>
    /\ found = <<<<<<"/", "a1">>, <<"P", "u">>>>>>
    /\ prompted = FALSE
    /\ idx = 0
    /\ base_url = <<"/", "a1">>
    /\ show_count = 0
    /\ count = 0
    /\ site = NoSite
    /\ page = 0
    /\ anchors = <<>>
    /\ book = NoBook
    /\ yielded = <<>>
    /\ url = <<>>
    /\ path = <<>>
    /\ events = <<Get("index", <<"/">>), Get("letter", <<"/", "p1">>)>>
    /\ dirs = {}
    /\ files = EmptyDict
    /\ fo_selector = Sel("other", <<>>, <<>>)
    /\ fo_tree = <<>>
    /\ fo_result = [tag |-> "none"]

IterNext ==
    \/ Probe
    \/ NextListing
    \/ GetBook
    \/ StopIteration
    \/ Prepare
    \/ DownloadFile
    \/ SleepStep

\* The program is one thread that runs until it returns or raises.
IterFairSpec == IterInit /\ [][IterNext]_vars /\ WF_vars(IterNext)

\* ------------------------------------------------------- findone on its own
FoElements ==
    {Other, [kind |-> "eText", text |-> NoText, href |-> <<>>],
     DivA(<<"/", "f", ".", "zip">>), DivA(<<"/", "f", ".", "epub">>)}

\* trees whose elements carry their position in the document as id
FoTrees ==
    {[i \in DOMAIN t |-> t[i] @@ [id |-> i]] : t \in SeqsUpTo(FoElements, MaxTreeLen)}

FoSelectors ==
    {Sel("eText", <<>>, <<>>), Sel("diva", <<".", "zip">>, <<>>),
     Sel("diva", <<".", "epub">>, <<>>), Sel("diva", <<>>, <<>>)}

FoInit ==
    /\ pc = "findone"
    /\ err = ""
    /\ query = <<>>
    /\ file_format = "epub"
    /\ filename_template = <<>>
    /\ index_page = <<>>
    /\ index = EmptyDict
    /\ letter_page = <<>>
    /\ found = <<>>
    /\ prompted = FALSE
    /\ idx = 0
    /\ base_url = <<>>
    /\ show_count = 0
    /\ count = 0
    /\ site = NoSite
    /\ page = 0
    /\ anchors = <<>>
    /\ book = NoBook
    /\ yielded = <<>>
    /\ url = <<>>
    /\ path = <<>>
    /\ events = <<>>
    /\ dirs = {}
    /\ files = EmptyDict
    /\ fo_selector \in FoSelectors
    /\ fo_tree \in FoTrees
    /\ fo_result = [tag |-> "pending"]

FoCall ==
    /\ pc = "findone"
    /\ fo_result.tag = "pending"
    /\ fo_result' = findone(fo_selector, fo_tree)
    /\ UNCHANGED <<mainVars, fo_selector, fo_tree>>

FoNext == FoCall

FoSpec == FoInit /\ [][FoNext]_vars

\* ------------------------------------------------------------ observations
EventsOf(op) == SelectSeq(events, LAMBDA e : e.op = op)

\* the positions in events of the calls named op
PositionsOf(op) == {i \in 1..Len(events) : events[i].op = op}

\* the iterator exists: BookIterator.__init__ has returned
Iterating == pc \in {"iter", "body", "download", "sleep", "done"}

\* the least n with n * s >= c: the number of pages that hold c entries
PagesNeeded(c, s) == CHOOSE n \in 0..c : n * s >= c /\ (n = 0 \/ (n - 1) * s < c)

ListingUrl(i) == get_abs_url(base_url \o <<"-", ToString(i)>>)

\* ---------------------------------------------------------------- claims

\* C1 as stated: with total_count > 0 a complete iteration visits
\* ceil(total_count / shown_per_page) + 1 suffixed listing pages.
C1_Original ==
    (pc = "done" /\ count > 0) =>
        Len(EventsOf("listing")) = PagesNeeded(count, show_count) + 1

\* C1 as amended: with total_count > 0 and shown_per_page > 0 a complete
\* iteration visits exactly ceil(total_count / shown_per_page) suffixed
\* listing pages, those numbered 1 .. ceil(total_count / shown_per_page);
\* count_pages is one more than that and range(1, count_pages) excludes it.
\* For total_count = 45 and shown_per_page = 20 it visits 3 pages.
C1_VisitsExactPages ==
    /\ (pc = "done" /\ count > 0) =>
          /\ Len(EventsOf("listing")) = PagesNeeded(count, show_count)
          /\ \A i \in 1..Len(EventsOf("listing")) :
                EventsOf("listing")[i].url = ListingUrl(i)
    /\ range(1, count_pages(45, 20)) = <<1, 2, 3>>

C1_Witness ==
    /\ pc = "done"
    /\ count = 3
    /\ show_count = 2
    /\ Len(EventsOf("listing")) = 2

\* C2: when the summary reports total_count = 0, the iterator yields no
\* Book and the probe of the base URL stays the last network request:
\* no listing page and no detail page is fetched.
C2_EmptyCatalogNoFetch ==
    (Iterating /\ count = 0) =>
        /\ pc \in {"iter", "done"}
        /\ yielded = <<>>
        /\ events # <<>>
        /\ events[Len(events)] = Get("probe", base_url)
        /\ Cardinality(PositionsOf("probe")) = 1
        /\ PositionsOf("listing") = {}
        /\ PositionsOf("detail") = {}

C2_Witness ==
    /\ pc = "done"
    /\ count = 0
    /\ Len(events) = 3
    /\ yielded = <<>>

FoMatching == {i \in 1..Len(fo_tree) : Matches(fo_selector, fo_tree[i])}

\* C3: findone returns None when nothing matches, the element when exactly
\* one matches, and otherwise raises MultipleElementsFoundError carrying
\* all the matching elements in document order.
C3_FindoneContract ==
    fo_result.tag # "pending" =>
        /\ FoMatching = {} => fo_result = [tag |-> "none"]
        /\ \A i \in FoMatching :
              FoMatching = {i} => fo_result = [tag |-> "one", elem |-> fo_tree[i]]
        /\ Cardinality(FoMatching) >= 2 =>
              /\ fo_result.tag = "raise"
              /\ Len(fo_result.found) = Cardinality(FoMatching)
              /\ \A k \in 1..Len(fo_result.found) :
                    /\ fo_result.found[k].id \in FoMatching
                    /\ fo_result.found[k] = fo_tree[fo_result.found[k].id]
                    /\ \A j \in 1..(k - 1) :
                          fo_result.found[j].id < fo_result.found[k].id

C3_Witness ==
    /\ fo_result.tag = "raise"
    /\ Len(fo_result.found) = 2
    /\ Len(fo_tree) = 3
    /\ fo_result.found[1].id = 1
    /\ fo_result.found[2].id = 3

\* C4 as stated: after a run that completes without error every book the
\* iterator yielded has its own file, so the number of files written
\* equals the number of (distinct) books downloaded.
C4_OneFilePerBook ==
    pc = "done" =>
        Cardinality(DOMAIN files) = Cardinality({yielded[k] : k \in 1..Len(yielded)})

\* C5: the prompt is shown exactly when the search gave more than one
\* match, and the URL the iterator probes is the href of the single match
\* or of the match whose menu number (1 .. number of matches) was entered.
C5_PromptIffSeveral ==
    /\ prompted => /\ Len(found) > 1
                   /\ idx \in 1..Len(found)
                   /\ base_url = found[idx][1]
    /\ (pc \notin {"search", "indexed", "searched"} /\ Len(found) > 1) => prompted
    /\ (pc \notin {"search", "indexed", "searched"} /\ Len(found) = 1) =>
          ~prompted /\ base_url = found[1][1]
    /\ \A i \in PositionsOf("probe") :
          /\ events[i].url = get_abs_url(base_url)
          /\ \E k \in 1..Len(found) : events[i].url = get_abs_url(found[k][1])

C5_Witness ==
    /\ prompted
    /\ idx = 2
    /\ found[1][1] # found[2][1]
    /\ PositionsOf("probe") # {}

NoMatchOnPage ==
    \A i \in 1..Len(letter_page) :
        letter_page[i].kind = "h2pa" => ~Contains(letter_page[i].text, query)

\* C6: when the search yields no match (no anchor of the letter's page
\* contains the query, or the query's first letter is no key of the
\* index), main raises IndexError at found[0]: nothing is prompted, no
\* book-list page is probed, no directory is made and no file is written.
C6_EmptySearchRaises ==
    /\ [](/\ (pc = "indexed" /\ first_letter(query) \notin DOMAIN index) =>
                letter_page = <<>>
          /\ (pc = "searched" /\ NoMatchOnPage) => found = <<>>
          /\ err = "IndexError" =>
                /\ pc = "error"
                /\ found = <<>>
                /\ ~prompted
                /\ PositionsOf("probe") = {}
                /\ dirs = {}
                /\ files = EmptyDict)
    /\ [][(pc = "indexed" /\ first_letter(query) \notin DOMAIN index) =>
             (pc' = "searched" /\ found' = <<>> /\ events' = events)]_vars
    /\ [][(pc = "searched" /\ found = <<>>) =>
             (pc' = "error" /\ err' = "IndexError")]_vars
    /\ [][pc # "error"]_vars

C6_Witness ==
    /\ pc = "error"
    /\ err = "IndexError"
    /\ query = <<"P", "U">>
    /\ Len(events) = 2
    /\ events[2].op = "letter"

\* C7 as stated: a book without the URL of the requested format ends the
\* run with an error after the download was attempted with the absent URL.
C7_Original ==
    (pc = "error" /\ err = "TypeError") =>
        \E i \in PositionsOf("download") : events[i].url = None

\* C7 as amended: a book without the URL of the requested format is not
\* skipped and not checked for: main makes the author's directory, then
\* raises TypeError in os.path.splitext(None), before download() is
\* called.  No request is made with the absent URL, no file is written
\* for that book, and nothing is fetched or downloaded afterwards.
C7_MissingFormatRaises ==
    /\ [](err = "TypeError" =>
            /\ pc = "error"
            /\ (file_format \o "_url") \notin DOMAIN book
            /\ url = None
            /\ path_join(dest, book.author) \in dirs
            /\ \A i \in PositionsOf("download") : events[i].url # None
            /\ Len(EventsOf("download")) = Len(yielded) - 1
            /\ \A p \in DOMAIN files : \E i \in PositionsOf("download") :
                  files[p] = events[i].url
            /\ events[Len(events)].op = "detail"
            /\ book = yielded[Len(yielded)])
    /\ [][(pc = "body" /\ (file_format \o "_url") \notin DOMAIN book) =>
             (pc' = "error" /\ err' = "TypeError" /\ events' = events
              /\ files' = files)]_vars
    /\ [][pc # "error"]_vars

C7_Witness ==
    /\ pc = "error"
    /\ err = "TypeError"
    /\ Len(yielded) = 2
    /\ Len(EventsOf("download")) = 1
    /\ Len(site.catalog) = 3
    /\ Len(EventsOf("detail")) = 2

\* C8: every completed download is followed at once by exactly one pause,
\* before any further request; a pause occurs nowhere else; the pause
\* follows the last download of the run too.
C8_PauseAfterEachDownload ==
    /\ \A i \in PositionsOf("download") :
          IF i < Len(events) THEN events[i + 1].op = "sleep" ELSE pc = "sleep"
    /\ \A i \in PositionsOf("sleep") : i > 1 /\ events[i - 1].op = "download"
    /\ pc = "sleep" => events # <<>> /\ events[Len(events)].op = "download"
    /\ pc = "download" => (events # <<>> /\ events[Len(events)].op = "detail")
    /\ pc = "done" =>
          Cardinality(PositionsOf("sleep")) = Cardinality(PositionsOf("download"))

C8_Witness ==
    /\ pc = "done"
    /\ Len(EventsOf("download")) = 2
    /\ events[Len(events)].op = "sleep"

IndexAnchorsOf(p) == {i \in 1..Len(p) : p[i].kind = "s1a"}

\* C9 as stated: the keys of get_index() are the lowercased first
\* characters of the texts of the index-page anchors.
C9_Original ==
    pc = "indexed" =>
        DOMAIN index = {lower(<<index_page[i].text[1]>>) : i \in IndexAnchorsOf(index_page)}

\* C9 as amended: when every anchor of the index page has a text, the keys
\* of get_index() are exactly the lowercased whole texts of the anchors
\* (get_index raises when an anchor has none); each key is mapped to the
\* href of the last anchor in document order that gives the key.
C9_IndexOfLoweredTexts ==
    pc = "indexed" =>
        /\ \A i \in IndexAnchorsOf(index_page) : index_page[i].text # NoText
        /\ DOMAIN index = {lower(index_page[i].text) : i \in IndexAnchorsOf(index_page)}
        /\ \A i \in IndexAnchorsOf(index_page) :
              (\A j \in IndexAnchorsOf(index_page) :
                  j > i => lower(index_page[j].text) # lower(index_page[i].text))
              => index[lower(index_page[i].text)] = index_page[i].href

C9_Witness ==
    /\ pc = "indexed"
    /\ Len(index_page) = 3
    /\ index_page[2].text = <<"P">>
    /\ index_page[3].text = <<"p">>
    /\ index_page[2].href = <<"/", "p1">>
    /\ index[<<"p">>] = <<"/", "p2">>

EntriesBefore(i) == Min(Len(site.catalog), (i - 1) * site.per_page)

\* the orders C10 speaks of, as a predicate of one state
C10_Safety ==
    (Iterating \/ (pc = "error" /\ PositionsOf("listing") # {})) =>
        /\ Len(EventsOf("listing")) = page
        /\ page <= PagesNeeded(count, show_count)
        /\ \A i \in 1..page : EventsOf("listing")[i].url = ListingUrl(i)
        /\ \A i \in 1..page :
              LET at == CHOOSE n \in PositionsOf("listing") : events[n].url = ListingUrl(i)
              IN Cardinality({n \in PositionsOf("detail") : n < at}) = EntriesBefore(i)
        /\ Len(EventsOf("detail")) <= Len(site.catalog)
        /\ \A k \in 1..Len(EventsOf("detail")) :
              EventsOf("detail")[k].url = get_abs_url(site.catalog[k])
        /\ Len(yielded) = Len(EventsOf("detail")) - (IF pc = "error" /\ ~get_book(DetailPage(site.catalog[Len(EventsOf("detail"))])).ok THEN 1 ELSE 0)
        /\ \A k \in 1..Len(yielded) :
              yielded[k] = get_book(DetailPage(site.catalog[k])).book
        /\ pc = "done" => Len(yielded) = Len(site.catalog)

\* C10: with total_count > 0 the listing pages are fetched in increasing
\* order from 1, each once; a page is fetched only when every anchor of
\* the pages before it has had its detail page fetched; the Books are
\* yielded in page order and document order, one per anchor; and the
\* iteration ends.
C10_LazyOrderedFinite ==
    /\ []C10_Safety
    /\ <>(pc \in {"done", "error"})

C10_Witness ==
    /\ pc = "done"
    /\ site.per_page = 2
    /\ Len(yielded) = 3
    /\ page = 2
    /\ yielded[1] # yielded[2]

====
